---- MODULE Spec2Model ----
(***************************************************************************)
(* Model of createComponent (src/src/index.ts): the render path of the     *)
(* component the factory returns, with its eight useMemo cells, the two    *)
(* helpers cleanClassName and omitCustomProps, and the clsx joiner.        *)
(*                                                                         *)
(* JavaScript values are records [id, kind, val].  Strings are sequences   *)
(* of one-character strings, so that whitespace handling is computed.      *)
(* Objects and functions carry an identity (id); Object.is compares        *)
(* identities for them and values for primitives.  Objects are immutable   *)
(* after creation (props, options and style objects are never written by   *)
(* the code), so an identity determines its content.                       *)
(***************************************************************************)
EXTENDS Integers, Sequences, FiniteSets, TLC

VARIABLES options, css, props, ref, memo, out

vars == <<options, css, props, ref, memo, out>>

(* ------------------------------ bounds --------------------------------- *)

\* longest incoming className drawn for the class-name runs, in characters
MaxLen == 2
\* longest base class drawn for the class-name runs, in characters
MaxBaseLen == 1
\* number of identities available to successive props objects
NumRefs == 2

(* --------------------------- JavaScript values -------------------------- *)

NoId == [site |-> "", n |-> 0]

JsUndefined == [id |-> NoId, kind |-> "undefined", val |-> <<>>]
JsNull == [id |-> NoId, kind |-> "null", val |-> <<>>]
JsBool(b) == [id |-> NoId, kind |-> "boolean", val |-> b]
JsNumber(n) == [id |-> NoId, kind |-> "number", val |-> n]
JsString(s) == [id |-> NoId, kind |-> "string", val |-> s]
JsArray(site, items) == [id |-> [site |-> site, n |-> 0], kind |-> "array", val |-> items]
JsFunction(name) == [id |-> [site |-> name, n |-> 0], kind |-> "function", val |-> <<>>]
JsObject(site, n, fields) == [id |-> [site |-> site, n |-> n], kind |-> "object", val |-> fields]

\* the typeof operator
TypeOf(v) ==
  CASE v.kind \in {"null", "array", "object"} -> "object"
    [] OTHER -> v.kind

\* ToBoolean
Truthy(v) ==
  CASE v.kind \in {"undefined", "null"} -> FALSE
    [] v.kind = "boolean" -> v.val
    [] v.kind = "string" -> v.val # <<>>
    [] v.kind = "number" -> v.val # 0
    [] OTHER -> TRUE

\* Object.is, the comparison useMemo applies to each dependency
ObjectIs(a, b) ==
  /\ a.kind = b.kind
  /\ IF a.kind \in {"object", "array", "function"} THEN a.id = b.id ELSE a.val = b.val

\* property read obj.key (undefined when the key is absent)
Get(obj, key) == IF key \in DOMAIN obj.val THEN obj.val[key] ELSE JsUndefined

EmptyFields == [k \in {} |-> JsUndefined]

\* { ...a, ...b } on field maps: b's keys win
SpreadFields(a, b) == [k \in DOMAIN a \cup DOMAIN b |-> IF k \in DOMAIN b THEN b[k] ELSE a[k]]

\* the own enumerable fields an object spread copies (none for undefined / null)
FieldsOf(v) == IF v.kind = "object" THEN v.val ELSE EmptyFields

(* ------------------------------ strings -------------------------------- *)

\* members of the regular-expression class \s that the model draws
WhiteSpace == {" ", "\n", "\t"}

RECURSIVE CollapseFrom(_, _)
\* className.replace(/\s+/g, ' ') from position i on
CollapseFrom(s, i) ==
  IF i > Len(s) THEN <<>>
  ELSE IF s[i] \in WhiteSpace
       THEN IF i > 1 /\ s[i - 1] \in WhiteSpace
            THEN CollapseFrom(s, i + 1)
            ELSE <<" ">> \o CollapseFrom(s, i + 1)
       ELSE <<s[i]>> \o CollapseFrom(s, i + 1)

ReplaceWhitespaceRuns(s) == CollapseFrom(s, 1)

RECURSIVE TrimStart(_)
TrimStart(s) == IF s # <<>> /\ Head(s) \in WhiteSpace THEN TrimStart(Tail(s)) ELSE s

RECURSIVE TrimEnd(_)
TrimEnd(s) ==
  IF s # <<>> /\ s[Len(s)] \in WhiteSpace THEN TrimEnd(SubSeq(s, 1, Len(s) - 1)) ELSE s

\* String.prototype.trim
Trim(s) == TrimEnd(TrimStart(s))

\* the cleaning without the final trim
cleanClassNameNoTrim(className) == ReplaceWhitespaceRuns(className)

cleanClassName(className) == Trim(ReplaceWhitespaceRuns(className))

RECURSIVE Digits(_)
\* String(n) for a natural number
Digits(n) ==
  LET d == <<"0", "1", "2", "3", "4", "5", "6", "7", "8", "9">>
  IN IF n < 10 THEN <<d[n + 1]>> ELSE Digits(n \div 10) \o <<d[(n % 10) + 1]>>

\* str && (str += ' '); str += x
AppendClass(str, x) == IF str = <<>> THEN x ELSE str \o <<" ">> \o x

RECURSIVE toValItems(_, _, _)
RECURSIVE toVal(_)
\* clsx's toVal: strings and numbers as they are, arrays recursively
toVal(mix) ==
  CASE mix.kind = "string" -> mix.val
    [] mix.kind = "number" -> Digits(mix.val)
    [] mix.kind = "array" -> toValItems(mix.val, 1, <<>>)
    [] OTHER -> <<>>

toValItems(items, k, str) ==
  IF k > Len(items) THEN str
  ELSE LET y == IF Truthy(items[k]) THEN toVal(items[k]) ELSE <<>>
       IN toValItems(items, k + 1, IF y # <<>> THEN AppendClass(str, y) ELSE str)

\* clsx(...args): every truthy argument's toVal, joined by one space
clsx(args) == toValItems(args, 1, <<>>)

(* ------------------------- property keys of props ----------------------- *)

\* keys of the props bag are character sequences, so that startsWith('$') is computed
kClassName == <<"c", "l", "a", "s", "s", "N", "a", "m", "e">>
kStyle == <<"s", "t", "y", "l", "e">>
kRef == <<"r", "e", "f">>
kOn == <<"$", "o", "n">>
kActive == <<"a", "c", "t", "i", "v", "e">>

\* enumeration order of the keys (Object.keys, for ... in)
PropKeyOrder == <<kActive, kOn, kClassName, kStyle>>

RECURSIVE KeysFrom(_, _)
KeysFrom(fields, i) ==
  IF i > Len(PropKeyOrder) THEN <<>>
  ELSE (IF PropKeyOrder[i] \in DOMAIN fields THEN <<PropKeyOrder[i]>> ELSE <<>>)
       \o KeysFrom(fields, i + 1)

\* Object.keys(props)
ObjectKeys(fields) == KeysFrom(fields, 1)

\* key.startsWith('$')
StartsWithDollar(key) == Len(key) >= 1 /\ key[1] = "$"

\* customProps.includes(key)
Includes(keys, key) == \E i \in 1..Len(keys) : keys[i] = key

(* --------------------------- user-supplied code ------------------------- *)

Ok(v) == [ok |-> TRUE, err |-> "", val |-> v]
Throw(e) == [ok |-> FALSE, err |-> e, val |-> JsUndefined]

sActive == <<"a", "c", "t", "i", "v", "e">>
sFoo == <<"f", "o", "o">>
sBar == <<"b", "a", "r">>

\* p => [p.active ? "active" : ""]
activeClasses(p) == JsArray("activeClasses", <<JsString(IF Truthy(Get(p, kActive)) THEN sActive ELSE <<>>)>>)

\* ({ $on }) => `\n  z-10\n  ${$on ? 'on t' : 'off'}\n  `, a multi-line template literal
templateClasses(p) ==
  JsString(<<"\n", " ", " ", "z", "\n", " ", " ">>
           \o (IF Truthy(Get(p, kOn)) THEN <<"o", "n", " ", "t">> ELSE <<"o", "f", "f">>)
           \o <<"\n", " ", " ">>)

\* p => ({ color: p.$on ? "red" : "green", width: "w" }), a new object on every call
colorCss(p, n) ==
  JsObject("colorCss", n,
           [k \in {"color", "width"} |->
              IF k = "color" THEN (IF Truthy(Get(p, kOn)) THEN "red" ELSE "green") ELSE "w"])

\* the functions a caller may pass; the two last ones throw
UserFunction(name, p, n) ==
  CASE name = "activeClasses" -> Ok(activeClasses(p))
    [] name = "templateClasses" -> Ok(templateClasses(p))
    [] name = "colorCss" -> Ok(colorCss(p, n))
    [] name = "throwClasses" -> Throw("UserError")
    [] name = "throwCss" -> Throw("UserError")

\* f(props): calling what is not a function is a TypeError
Call(f, p, n) == IF f.kind = "function" THEN UserFunction(f.id.site, p, n) ELSE Throw("TypeError")

(* ------------------------------- useMemo -------------------------------- *)

EmptyCell == [set |-> FALSE, deps |-> <<>>, value |-> JsUndefined]

CellNames == {"baseClass", "dynamicClasses", "dynamicCss", "classes", "resolvedCss",
              "mergedStyles", "customProps", "domProps"}

\* the hook state of a freshly mounted instance
EmptyMemo == [c \in CellNames |-> EmptyCell]

\* areHookInputsEqual: every dependency is Object.is-equal to the stored one
DepsEqual(old, new) ==
  /\ Len(old) = Len(new)
  /\ \A i \in 1..Len(new) : ObjectIs(old[i], new[i])

\* useMemo(factory, deps): the stored value when the dependencies are unchanged,
\* otherwise the factory's result (comp), stored with the new dependencies
useMemo(cell, deps, comp) ==
  IF cell.set /\ DepsEqual(cell.deps, deps)
  THEN [ok |-> TRUE, err |-> "", cell |-> cell]
  ELSE IF comp.ok
       THEN [ok |-> TRUE, err |-> "", cell |-> [set |-> TRUE, deps |-> deps, value |-> comp.val]]
       ELSE [ok |-> FALSE, err |-> comp.err, cell |-> cell]

\* identities the hook state still refers to
HeldIds(m) ==
  UNION {{m[c].deps[i].id : i \in 1..Len(m[c].deps)} \cup {m[c].value.id} : c \in CellNames}

\* an identity of a newly allocated object: one no live object has
FreshN(site, held) == CHOOSE n \in 1..NumRefs : [site |-> site, n |-> n] \notin held

(* ------------------------------ the render ------------------------------ *)

\* const { className, style, ...restProps } = props
RestFields(p) == [k \in DOMAIN p.val \ {kClassName, kStyle} |-> p.val[k]]

\* the resolution that takes every non-object options as the base class
baseClassLoose(opts) ==
  IF TypeOf(opts) = "object"
  THEN (IF opts.kind = "null" THEN Throw("TypeError") ELSE Ok(Get(opts, "base")))
  ELSE Ok(opts)

\* if (typeof options === 'string') return options
\* if (typeof options === 'object') return options.base       (null.base throws)
baseClassFactory(opts) ==
  IF TypeOf(opts) = "string" THEN Ok(opts)
  ELSE IF TypeOf(opts) = "object"
       THEN (IF opts.kind = "null" THEN Throw("TypeError") ELSE Ok(Get(opts, "base")))
       ELSE Ok(JsUndefined)

\* the resolution without the branch for a function options
dynamicClassesNoFunction(opts) ==
  IF TypeOf(opts) = "object"
  THEN (IF opts.kind = "null" THEN Ok(JsUndefined) ELSE Ok(Get(opts, "classes")))
  ELSE Ok(JsUndefined)

\* if (typeof options === 'object') return options?.classes
\* if (typeof options === 'function') return options
dynamicClassesFactory(opts) ==
  IF TypeOf(opts) = "object"
  THEN (IF opts.kind = "null" THEN Ok(JsUndefined) ELSE Ok(Get(opts, "classes")))
  ELSE IF TypeOf(opts) = "function" THEN Ok(opts) ELSE Ok(JsUndefined)

\* options.css ?? css: the css parameter as a fallback of a structured options
dynamicCssFallback(opts, cssArg) ==
  IF TypeOf(opts) = "object" /\ opts.kind # "null" /\ "css" \in DOMAIN opts.val
  THEN Ok(Get(opts, "css"))
  ELSE Ok(cssArg)

\* if (typeof options === 'object') return options?.css; return css
dynamicCssFactory(opts, cssArg) ==
  IF TypeOf(opts) = "object"
  THEN (IF opts.kind = "null" THEN Ok(JsUndefined) ELSE Ok(Get(opts, "css")))
  ELSE Ok(cssArg)

\* the incoming className ahead of the configured classes
ClassSourcesClassNameFirst(baseClass, dynamicResult, className) ==
  <<className, baseClass, dynamicResult>>

\* the arguments handed to clsx, in order
ClassSources(baseClass, dynamicResult, className) == <<baseClass, dynamicResult, className>>

\* cleanClassName(clsx(baseClass, dynamicClasses ? dynamicClasses(props) : [], className))
classesFactory(baseClass, dynamicClasses, className, p) ==
  LET dyn == IF Truthy(dynamicClasses)
             THEN Call(dynamicClasses, p, 0)
             ELSE Ok(JsArray("empty", <<>>))
  IN IF dyn.ok
     THEN Ok(JsString(cleanClassName(clsx(ClassSources(baseClass, dyn.val, className)))))
     ELSE dyn

\* typeof dynamicCss === 'function' ? dynamicCss(props) : dynamicCss
resolvedCssFactory(dynamicCss, p, n) ==
  IF TypeOf(dynamicCss) = "function" THEN Call(dynamicCss, p, n) ELSE Ok(dynamicCss)

\* { ...style, ...resolvedCss }: the computed style wins
MergeComputedWins(resolvedCss, style) == SpreadFields(FieldsOf(style), FieldsOf(resolvedCss))

\* { ...resolvedCss, ...style }
MergeStyleFields(resolvedCss, style) == SpreadFields(FieldsOf(resolvedCss), FieldsOf(style))

mergedStylesFactory(resolvedCss, style, n) ==
  Ok(JsObject("mergedStyles", n, MergeStyleFields(resolvedCss, style)))

\* Object.keys(props).filter(key => typeof key === 'string' && key.startsWith('$'))
customPropsFactory(p, n) ==
  Ok([id |-> [site |-> "customProps", n |-> n], kind |-> "array",
      val |-> SelectSeq(ObjectKeys(p.val), StartsWithDollar)])

\* the filter that copies every key
omitNothing(fields, customProps) == fields

\* the filter with its test inverted
omitInverted(fields, customProps) ==
  [k \in {key \in DOMAIN fields : Includes(customProps, key)} |-> fields[k]]

\* for (const key in props) if (!customProps.includes(key)) domProps[key] = props[key]
omitCustomProps(fields, customProps) ==
  [k \in {key \in DOMAIN fields : ~Includes(customProps, key)} |-> fields[k]]

domPropsFactory(restProps, customProps, n) ==
  Ok(JsObject("domProps", n, omitCustomProps(restProps.val, customProps.val)))

\* the dependency list of classes without props
classesDepsNoProps(baseClass, dynamicClasses, className, p) ==
  <<baseClass, dynamicClasses, className>>

\* the dependency lists of the memoized steps
baseClassDeps(opts) == <<opts>>
dynamicClassesDeps(opts) == <<opts>>
dynamicCssDeps(opts, cssArg) == <<opts, cssArg>>
classesDeps(baseClass, dynamicClasses, className, p) == <<baseClass, dynamicClasses, className, p>>
resolvedCssDeps(dynamicCss, p) == <<dynamicCss, p>>
mergedStylesDeps(resolvedCss, style) == <<resolvedCss, style>>
customPropsDeps(p) == <<p>>
domPropsDeps(restProps, customProps) == <<restProps, customProps>>

\* createElement(tag, { ...domProps, className: classes, style: mergedStyles, ref })
ElementFields(domProps, classes, mergedStyles, r) ==
  SpreadFields(domProps.val,
               [k \in {kClassName, kStyle, kRef} |->
                  IF k = kClassName THEN classes ELSE IF k = kStyle THEN mergedStyles ELSE r])

\* what a render hands back to the framework
Rendered(r, h1, h2, h3, h4, h5, h6, h7, h8) ==
  CASE ~h1.ok -> [ok |-> FALSE, err |-> h1.err, memo |-> EmptyMemo, element |-> JsUndefined]
    [] h1.ok /\ ~h4.ok -> [ok |-> FALSE, err |-> h4.err, memo |-> EmptyMemo, element |-> JsUndefined]
    [] h1.ok /\ h4.ok /\ ~h5.ok ->
         [ok |-> FALSE, err |-> h5.err, memo |-> EmptyMemo, element |-> JsUndefined]
    [] OTHER ->
         [ok |-> TRUE, err |-> "",
          memo |-> [baseClass |-> h1.cell, dynamicClasses |-> h2.cell,
                    dynamicCss |-> h3.cell, classes |-> h4.cell,
                    resolvedCss |-> h5.cell, mergedStyles |-> h6.cell,
                    customProps |-> h7.cell, domProps |-> h8.cell],
          element |-> JsObject("element", 0,
                               ElementFields(h8.cell.value, h4.cell.value, h6.cell.value, r))]

\* domProps, from restProps and customProps (h7)
RenderDomProps(p, r, m, held, h1, h2, h3, h4, h5, h6, h7, restProps) ==
  Rendered(r, h1, h2, h3, h4, h5, h6, h7,
           useMemo(m.domProps, domPropsDeps(restProps, h7.cell.value),
                   domPropsFactory(restProps, h7.cell.value, FreshN("domProps", held))))

\* mergedStyles, from resolvedCss (h5) and style; then customProps
RenderStyles(p, r, m, held, h1, h2, h3, h4, h5) ==
  RenderDomProps(p, r, m, held, h1, h2, h3, h4, h5,
                 useMemo(m.mergedStyles, mergedStylesDeps(h5.cell.value, Get(p, kStyle)),
                         mergedStylesFactory(h5.cell.value, Get(p, kStyle),
                                             FreshN("mergedStyles", held))),
                 useMemo(m.customProps, customPropsDeps(p),
                         customPropsFactory(p, FreshN("customProps", held))),
                 JsObject("restProps", FreshN("restProps", held), RestFields(p)))

\* classes, from baseClass (h1), dynamicClasses (h2) and className; resolvedCss, from
\* dynamicCss (h3)
RenderClasses(p, r, m, held, h1, h2, h3) ==
  RenderStyles(p, r, m, held, h1, h2, h3,
               useMemo(m.classes,
                       classesDeps(h1.cell.value, h2.cell.value, Get(p, kClassName), p),
                       classesFactory(h1.cell.value, h2.cell.value, Get(p, kClassName), p)),
               useMemo(m.resolvedCss, resolvedCssDeps(h3.cell.value, p),
                       resolvedCssFactory(h3.cell.value, p, FreshN("colorCss", held))))

\* One call of RenderComponent(props, ref) against hook state m: the hooks run in
\* source order and the first exception abandons the render.
RenderComponent(opts, cssArg, p, r, m) ==
  RenderClasses(p, r, m, HeldIds(m),
                useMemo(m.baseClass, baseClassDeps(opts), baseClassFactory(opts)),
                useMemo(m.dynamicClasses, dynamicClassesDeps(opts), dynamicClassesFactory(opts)),
                useMemo(m.dynamicCss, dynamicCssDeps(opts, cssArg),
                        dynamicCssFactory(opts, cssArg)))

(* ------------------------------- inputs --------------------------------- *)

Alphabet == {"a", " ", "\n"}

\* every string over the alphabet of at most n characters
Strs(n) == UNION {[1..k -> Alphabet] : k \in 0..n}

\* a record of optional fields as an object's field map: undefined choices are absent keys
PresentFields(choice) == [k \in {key \in DOMAIN choice : choice[key].kind # "undefined"} |-> choice[k]]

\* css: { color: "red" } inside the options object
optionsCss == JsObject("optionsCss", 0, [k \in {"color"} |-> "red"])
\* a static style object passed as the second parameter
paramCss == JsObject("paramCss", 0, [k \in {"color", "height"} |-> IF k = "color" THEN "pink" ELSE "h"])

\* style objects a caller passes as the style prop
styleBlue == JsObject("styleBlue", 0, [k \in {"color"} |-> "blue"])
styleMargin == JsObject("styleMargin", 0, [k \in {"margin"} |-> "m"])

refObject == JsObject("refObject", 0, [k \in {"current"} |-> "node"])

\* structured options { base?, classes?, css? }
ObjectOptions(bases, classFns, cssValues) ==
  {JsObject("options", 0, PresentFields(c)) :
     c \in [base : bases, classes : classFns, css : cssValues]}

\* the first argument of the factory, of every typeof
OptionsPool ==
  {JsUndefined, JsNull, JsNumber(42), JsBool(TRUE), JsString(sFoo),
   JsFunction("templateClasses"), JsFunction("throwClasses")}
  \cup ObjectOptions({JsUndefined, JsString(<<"a">>)},
                     {JsUndefined, JsFunction("activeClasses"), JsFunction("throwClasses")},
                     {JsUndefined, optionsCss, JsFunction("colorCss"), JsFunction("throwCss")})

\* the second argument of the factory
CssPool == {JsUndefined, paramCss, JsFunction("colorCss"), JsFunction("throwCss")}

\* props bags: each of the four keys absent or present
Bags(classNames, styles, ons, actives) ==
  {PresentFields([k \in {kClassName, kStyle, kOn, kActive} |->
                    CASE k = kClassName -> cn [] k = kStyle -> st [] k = kOn -> on [] OTHER -> ac]) :
     cn \in classNames, st \in styles, on \in ons, ac \in actives}

BagPool ==
  Bags({JsUndefined, JsString(sBar)}, {JsUndefined, styleBlue, styleMargin},
       {JsUndefined, JsBool(TRUE)}, {JsUndefined, JsBool(TRUE)})

\* the ref the caller attaches
RefPool == {refObject}

\* the class-name runs: base classes and classNames with every mix of whitespace
BaseStrings == {JsString(s) : s \in Strs(MaxBaseLen) \cup {sFoo}}

ClassOptionsPool ==
  {JsUndefined, JsFunction("templateClasses")}
  \cup BaseStrings
  \cup ObjectOptions({JsUndefined} \cup BaseStrings,
                     {JsUndefined, JsFunction("activeClasses")}, {JsUndefined})

ClassBagPool ==
  Bags({JsUndefined} \cup {JsString(s) : s \in Strs(MaxLen) \cup {sBar}}, {JsUndefined},
       {JsUndefined}, {JsBool(TRUE)})
  \cup Bags({JsUndefined, JsString(sBar)}, {JsUndefined}, {JsUndefined}, {JsBool(FALSE)})

(* ------------------------------- actions -------------------------------- *)

NoOutput == [status |-> "none", err |-> "", element |-> JsUndefined]

\* createComponent(tag, options, css): the closure is fixed, nothing has rendered
Create(optionsPool, cssPool) ==
  /\ options \in optionsPool
  /\ css \in cssPool
  /\ props = JsUndefined
  /\ ref = JsNull
  /\ memo = EmptyMemo
  /\ out = NoOutput

\* the framework commits what the render returned; a render that throws tears the
\* instance down, so its hook state is gone
Committed(p, r, res) ==
  /\ props' = p
  /\ ref' = r
  /\ memo' = res.memo
  /\ out' = [status |-> IF res.ok THEN "ok" ELSE "threw", err |-> res.err, element |-> res.element]
  /\ UNCHANGED <<options, css>>

\* the framework calls RenderComponent(p, r)
Commit(p, r) == Committed(p, r, RenderComponent(options, css, p, r, memo))

\* a render with a new props object
Render(bag, r) == Commit(JsObject("props", FreshN("props", HeldIds(memo)), bag), r)

\* a render of the mounted instance with the referentially identical props object
Rerender(r) ==
  /\ out.status = "ok"
  /\ Commit(props, r)

Init == Create(OptionsPool, CssPool)

Next ==
  \/ \E bag \in BagPool, r \in RefPool : Render(bag, r)
  \/ \E r \in RefPool : Rerender(r)

Spec == Init /\ [][Next]_vars

\* the same component, driven with whitespace-laden class names
InitClass == Create(ClassOptionsPool, {JsUndefined})

NextClass ==
  \/ \E bag \in ClassBagPool, r \in RefPool : Render(bag, r)
  \/ \E r \in RefPool : Rerender(r)

SpecClass == InitClass /\ [][NextClass]_vars

(* ------------------------------ properties ------------------------------ *)

\* what the last render gave the element
outOk == out.status = "ok"
outClass == out.element.val[kClassName].val
outStyle == out.element.val[kStyle].val
inClassName == Get(props, kClassName)
inStyle == Get(props, kStyle)

IsSpace(c) == c \in WhiteSpace

\* no leading, no trailing and no doubled whitespace
Normalized(s) ==
  /\ s # <<>> => ~IsSpace(s[1]) /\ ~IsSpace(s[Len(s)])
  /\ \A i \in 1..(Len(s) - 1) : ~(IsSpace(s[i]) /\ IsSpace(s[i + 1]))

RECURSIVE WordsFrom(_, _, _)
\* the maximal whitespace-free pieces of s, in order (cur is the piece being read)
WordsFrom(s, i, cur) ==
  IF i > Len(s) THEN (IF cur = <<>> THEN <<>> ELSE <<cur>>)
  ELSE IF IsSpace(s[i])
       THEN (IF cur = <<>> THEN <<>> ELSE <<cur>>) \o WordsFrom(s, i + 1, <<>>)
       ELSE WordsFrom(s, i + 1, cur \o <<s[i]>>)

Words(s) == WordsFrom(s, 1, <<>>)

RECURSIVE JoinWords(_)
\* words joined by single spaces
JoinWords(ws) ==
  IF ws = <<>> THEN <<>>
  ELSE IF Len(ws) = 1 THEN ws[1] ELSE ws[1] \o <<" ">> \o JoinWords(Tail(ws))

\* the text of a string value, nothing for any other value
TextOf(v) == IF v.kind = "string" THEN v.val ELSE <<>>

RECURSIVE WordsOfTokens(_)
\* the words of a list of class tokens, token by token
WordsOfTokens(tokens) ==
  IF tokens = <<>> THEN <<>> ELSE Words(TextOf(Head(tokens))) \o WordsOfTokens(Tail(tokens))

\* the configured base class: a string options, or the base field of an options object
ConfiguredBase ==
  IF options.kind = "string" THEN options.val
  ELSE IF options.kind = "object" THEN TextOf(Get(options, "base")) ELSE <<>>

\* the configured class function: a function options, or the classes field
ConfiguredClassFn ==
  IF options.kind = "function" THEN options
  ELSE IF options.kind = "object" THEN Get(options, "classes") ELSE JsUndefined

\* what the configured class function returns for the current props, as a token list
ReturnedTokens ==
  IF ConfiguredClassFn.kind # "function" THEN <<>>
  ELSE LET res == UserFunction(ConfiguredClassFn.id.site, props, 0).val
       IN IF res.kind = "array" THEN res.val ELSE <<res>>

\* C1: after every successful render the element's className has no leading
\* whitespace, no trailing whitespace and no two adjacent whitespace characters
C1_ClassNameNormalized == outOk => Normalized(outClass)

\* a render whose base class ends in whitespace and whose className begins with it
C1_Witness ==
  /\ outOk
  /\ options.kind = "string" /\ options.val # <<>> /\ IsSpace(options.val[Len(options.val)])
  /\ inClassName.kind = "string" /\ Len(inClassName.val) = 2
  /\ IsSpace(inClassName.val[1]) /\ ~IsSpace(inClassName.val[2])

\* C2: after every successful render, in any sequence of renders, no key of the
\* props handed to the element starts with '$'
C2_NoCustomPropForwarded == outOk => \A k \in DOMAIN out.element.val : ~StartsWithDollar(k)

\* a render whose props carry $on next to an ordinary prop, which is forwarded
C2_Witness ==
  /\ outOk
  /\ kOn \in DOMAIN props.val
  /\ kActive \in DOMAIN props.val
  /\ kActive \in DOMAIN out.element.val

\* C3: the final class name is the words of the base class, then of the returned
\* tokens in order, then of the incoming className, joined by single spaces; "foo"
\* with className "bar" gives "foo bar"; { base: "a", classes: activeClasses } gives
\* "a active" for active = true and "a" for active = false
C3_ClassOrder ==
  outOk =>
    /\ outClass = JoinWords(Words(ConfiguredBase) \o WordsOfTokens(ReturnedTokens)
                            \o Words(TextOf(inClassName)))
    /\ (options = JsString(sFoo) /\ inClassName = JsString(sBar))
         => outClass = <<"f", "o", "o", " ", "b", "a", "r">>
    /\ ( /\ options.kind = "object"
         /\ Get(options, "base") = JsString(<<"a">>)
         /\ Get(options, "classes") = JsFunction("activeClasses")
         /\ inClassName.kind = "undefined" )
         => outClass = (IF Get(props, kActive) = JsBool(TRUE)
                        THEN <<"a", " ", "a", "c", "t", "i", "v", "e">> ELSE <<"a">>)

\* base, a dynamic token and a className all contribute, in that order
C3_Witness ==
  /\ outOk
  /\ options.kind = "object"
  /\ Get(options, "base") = JsString(<<"a">>)
  /\ Get(options, "classes") = JsFunction("activeClasses")
  /\ Get(props, kActive) = JsBool(TRUE)
  /\ inClassName = JsString(sBar)
  /\ outClass = <<"a", " ", "a", "c", "t", "i", "v", "e", " ", "b", "a", "r">>

\* the style a css source yields for the current props: a function's result, a
\* static object as it is, nothing otherwise
StyleFrom(source) ==
  IF source.kind = "function" THEN FieldsOf(UserFunction(source.id.site, props, 0).val)
  ELSE FieldsOf(source)

\* the computed style the last render resolved
computedStyle == FieldsOf(memo.resolvedCss.value)

\* C4: the element's style has the keys of the computed and of the incoming style,
\* the incoming value wherever the incoming style has the key and the computed
\* value elsewhere; css { color: "red" } under style { color: "blue" } is { color: "blue" }
C4_StyleMerge ==
  outOk =>
    /\ DOMAIN outStyle = DOMAIN computedStyle \cup DOMAIN FieldsOf(inStyle)
    /\ \A k \in DOMAIN FieldsOf(inStyle) : outStyle[k] = inStyle.val[k]
    /\ \A k \in DOMAIN computedStyle \ DOMAIN FieldsOf(inStyle) : outStyle[k] = computedStyle[k]
    /\ (options.kind = "object" /\ Get(options, "css") = optionsCss /\ inStyle = styleBlue)
         => outStyle = [k \in {"color"} |-> "blue"]

\* the computed and the incoming style collide on color
C4_Witness ==
  /\ outOk
  /\ options.kind = "object" /\ Get(options, "css") = optionsCss
  /\ inStyle = styleBlue
  /\ outStyle = [k \in {"color"} |-> "blue"]

\* every incoming key that does not start with '$' reaches the element unchanged
NonCustomForwarded ==
  \A k \in DOMAIN props.val :
    ~StartsWithDollar(k) => k \in DOMAIN out.element.val /\ out.element.val[k] = props.val[k]

\* C5 as stated: options omitted and no className and no style in the props give
\* an empty class name, an empty style and every non-'$' prop forwarded unchanged
C5_Original ==
  (out.status # "none" /\ options.kind = "undefined"
   /\ inClassName.kind = "undefined" /\ inStyle.kind = "undefined")
    => outOk /\ outClass = <<>> /\ outStyle = EmptyFields /\ NonCustomForwarded

\* C5 amended: the same when the css parameter is omitted as well
C5_Amended ==
  (out.status # "none" /\ options.kind = "undefined" /\ css.kind = "undefined"
   /\ inClassName.kind = "undefined" /\ inStyle.kind = "undefined")
    => outOk /\ outClass = <<>> /\ outStyle = EmptyFields /\ NonCustomForwarded

\* nothing configured, and props with an ordinary and a '$' key
C5_Witness ==
  /\ outOk
  /\ options.kind = "undefined" /\ css.kind = "undefined"
  /\ inClassName.kind = "undefined" /\ inStyle.kind = "undefined"
  /\ kActive \in DOMAIN props.val /\ kOn \in DOMAIN props.val
  /\ out.element.val[kActive] = JsBool(TRUE)

\* C6: the final style is the incoming style over the style of options.css when
\* options is a structured object (also without a css field), and over the style
\* of the css parameter (called with the full props if a function) otherwise; with
\* a structured options the css parameter is not even called
C6_CssParameter ==
  /\ outOk =>
       outStyle = SpreadFields(StyleFrom(IF options.kind = "object"
                                         THEN Get(options, "css") ELSE css),
                               FieldsOf(inStyle))
  /\ ( /\ out.status # "none"
       /\ options.kind = "object"
       /\ Get(options, "classes") # JsFunction("throwClasses")
       /\ Get(options, "css") # JsFunction("throwCss") ) => outOk

\* a structured options without css field next to a supplied css parameter
C6_Witness ==
  /\ outOk
  /\ options.kind = "object" /\ "css" \notin DOMAIN options.val
  /\ css = paramCss
  /\ inStyle = styleMargin
  /\ outStyle = [k \in {"margin"} |-> "m"]

\* C7 as stated: with a function options the final class name comes from the
\* function's result alone
C7_Original ==
  (outOk /\ options.kind = "function") => outClass = JoinWords(WordsOfTokens(ReturnedTokens))

\* C7 amended: with a function options there is no base class, the function is
\* called with the full props, and the final class name is its result followed by
\* the incoming className
C7_Amended ==
  (outOk /\ options.kind = "function") =>
    outClass = JoinWords(Words(TextOf(UserFunction(options.id.site, props, 0).val))
                         \o Words(TextOf(inClassName)))

\* the function reads $on, which only the full props carry, and a className comes in
C7_Witness ==
  /\ outOk
  /\ options = JsFunction("templateClasses")
  /\ Get(props, kOn) = JsBool(TRUE)
  /\ inClassName = JsString(sBar)
  /\ outClass = <<"z", " ", "o", "n", " ", "t", " ", "b", "a", "r">>

Unrecognized == options.kind \in {"number", "boolean"}

\* C8 as stated: an options that is no string, function or object renders without
\* failing, whatever the css parameter, to the normalized className and the
\* incoming style alone
C8_Original ==
  (out.status # "none" /\ Unrecognized) =>
    /\ outOk
    /\ outClass = JoinWords(Words(TextOf(inClassName)))
    /\ outStyle = FieldsOf(inStyle)

\* C8 amended: such an options gives no base class and no dynamic classes, and the
\* css parameter is consulted as usual: the class name is the normalized className,
\* the style is the incoming style over the style of the css parameter, and the
\* render fails only when the css parameter is a function that throws
C8_Amended ==
  (out.status # "none" /\ Unrecognized) =>
    IF css = JsFunction("throwCss")
    THEN out.status = "threw" /\ out.err = "UserError"
    ELSE /\ outOk
         /\ outClass = JoinWords(Words(TextOf(inClassName)))
         /\ outStyle = SpreadFields(StyleFrom(css), FieldsOf(inStyle))

\* a number as options, a css parameter, a className and a style
C8_Witness ==
  /\ outOk
  /\ options = JsNumber(42)
  /\ css = paramCss
  /\ inClassName = JsString(sBar)
  /\ inStyle = styleBlue
  /\ outClass = sBar

\* an element's props with the style compared by content
ElementView(e) == [k \in DOMAIN e.val |-> IF k = kStyle THEN e.val[k].val ELSE e.val[k]]

\* the render of the current props by a freshly mounted instance
FromScratch == RenderComponent(options, css, props, ref, EmptyMemo)

\* C9: whatever was rendered before, the last render gave what a render from
\* scratch of the same options, css, props and ref gives
C9_HistoryFree ==
  out.status # "none" =>
    /\ outOk = FromScratch.ok
    /\ out.err = FromScratch.err
    /\ outOk => ElementView(out.element) = ElementView(FromScratch.element)

\* a mounted instance given a second props object and then rendered again with
\* that same object, its class and css functions reading the props
C9_Witness ==
  /\ outOk
  /\ props.id.n = 2
  /\ memo.domProps.value.id.n = 1
  /\ options = JsFunction("templateClasses")
  /\ css = JsFunction("colorCss")
  /\ Get(props, kOn) = JsBool(TRUE)

\* C10: a render fails only when a user-supplied classes or css function throws,
\* for every options value including null
C10_OnlyUserErrors == out.status = "threw" => out.err = "UserError"

====
